---- MODULE Spec2Model ----
(***************************************************************************)
(* State-machine model of the user-management API (NestJS backend over a   *)
(* single DynamoDB table): UsersService, AuthService, JwtStrategy,         *)
(* RolesGuard, UsersController and AuthController.                         *)
(*                                                                         *)
(* Every store call (one DynamoDB command) is one atomic step; a request   *)
(* that awaits several store calls is several steps, so that concurrent    *)
(* requests interleave exactly at the awaits of the code.                  *)
(***************************************************************************)
EXTENDS Integers, FiniteSets, Sequences, TLC

VARIABLES
  table,    \* the DynamoDB table: userId -> item (DOMAIN = stored keys)
  retired,  \* keys of deleted items (a generated uuid never repeats one)
  clock,    \* wall clock read by `new Date()` and by the token library
  tokens,   \* signed tokens issued by login and still held by clients
  reqs,     \* requests in flight: slot -> request record with its position
  last,     \* the response being handed to its client (NoResponse: none)
  nreq,     \* number of requests that went on to a write command so far
  client    \* the browser: auth store, localStorage, header of the last request

vars == <<table, retired, clock, tokens, reqs, last, nreq, client>>

----------------------------------------------------------------------------
(* Bounds of the model *)

MaxUsers == 4
MaxClock == 1
MaxWrites == 2
MaxInFlight == 2
MaxTokens == 2
TokenTTL == 1

UserIds == 1..MaxUsers
Slots == 1..MaxInFlight

----------------------------------------------------------------------------
(* Values *)

USER == "USER"
ADMIN == "ADMIN"
UserRole == {USER, ADMIN}

Null == << >>

Some(x) == <<x>>

Opt(k, V) == {<< >>} \cup {(k :> v) : v \in V}

\* variant: the e-mail is used as typed
asTyped(e) == e

\* String.prototype.toLowerCase on the e-mail addresses of the model
toLowerCase(e) ==
  CASE e = "A@x" -> "a@x"
    [] e = "C@x" -> "c@x"
    [] OTHER -> e

\* bcrypt.hash: a hash under a salt generated for the call (the model takes
\* the ordinal of the request, so that no two requests hash alike);
\* bcrypt.compare: true iff the hash was made from pass
bcryptHash(pass, salt) == [pw |-> pass, salt |-> salt]

bcryptCompare(pass, h) == h.pw = pass

Omit(u, k) == [f \in DOMAIN u \ {k} |-> u[f]]

----------------------------------------------------------------------------
(* Request bodies that pass the ValidationPipe *)

LoginEmails == {"a@x", "A@x", "b@x", "c@x"}
Passwords == {"password1", "password2"}

\* the properties UpdateUserDto and UpdateProfileDto declare
UpdateUserDtoFields ==
  {"firstName", "lastName", "role", "isDisabled", "password", "avatarUrl"}

\* variant: UpdateProfileDto also declares role
UpdateProfileDtoFieldsWithRole ==
  {"firstName", "lastName", "avatarUrl", "role"}

UpdateProfileDtoFields == {"firstName", "lastName", "avatarUrl"}

\* variant: the body reaches the handler as sent
asSent(body, fields) == body

\* ValidationPipe({ whitelist: true }): properties the DTO class does not
\* declare are stripped from the body
whitelist(body, fields) == [k \in DOMAIN body \cap fields |-> body[k]]

\* POST /auth/register and POST /users: a taken and a new e-mail, without a
\* role and with each role, with and without the optional profile fields
CreateUserDtos ==
  { [email |-> "A@x", password |-> "password1"],
    [email |-> "C@x", password |-> "password1"],
    [email |-> "C@x", password |-> "password1", role |-> ADMIN],
    [email |-> "C@x", password |-> "password1", role |-> USER,
     firstName |-> "Ann", avatarUrl |-> "http://img/1"] }

\* PATCH /users/:id: the empty body, single fields, and the bodies an
\* administrator can send on their own id
UpdateUserDtos ==
  { << >>,
    [firstName |-> "Bob"],
    [role |-> USER],
    [isDisabled |-> TRUE],
    [isDisabled |-> FALSE],
    [password |-> "password2"],
    [role |-> ADMIN, firstName |-> "Bob"],
    [role |-> ADMIN, isDisabled |-> TRUE],
    [userId |-> 4, email |-> "b@x", createdAt |-> 1, lastName |-> "Lee"] }

\* every valid body of PATCH /users/:id: each subset of the optional fields
AllUpdateUserDtos ==
  { f @@ l @@ r @@ d @@ p @@ a :
      f \in Opt("firstName", {"Bob"}),
      l \in Opt("lastName", {"Lee"}),
      r \in Opt("role", UserRole),
      d \in Opt("isDisabled", BOOLEAN),
      p \in Opt("password", {"password2"}),
      a \in Opt("avatarUrl", {"http://img/2"}) }

\* every valid body of PATCH /users/profile, and bodies that carry fields
\* the DTO does not declare
AllUpdateProfileDtos ==
  { f @@ l @@ a :
      f \in Opt("firstName", {"Bob"}),
      l \in Opt("lastName", {"Lee"}),
      a \in Opt("avatarUrl", {"http://img/2"}) }
  \cup { [role |-> r, isDisabled |-> d, password |-> "password2"] @@ f :
           r \in UserRole, d \in BOOLEAN, f \in Opt("firstName", {"Bob"}) }

\* PATCH /users/profile
UpdateProfileDtos ==
  { << >>, [firstName |-> "Bob", avatarUrl |-> "http://img/2"] }

----------------------------------------------------------------------------
(* UsersService: reads *)

\* findOneById: GetCommand by key; a store error is caught and null returned
findOneById(userId, storeFails) ==
  IF storeFails \/ userId \notin DOMAIN table
    THEN Null
    ELSE Some(table[userId])

\* findOneByEmail: Query on EmailIndex with the lower-cased e-mail, Limit 1;
\* the set of values the call can return (any one matching item; null when
\* there is none or when the store throws, which is caught)
findOneByEmail(email, storeFails) ==
  LET matches == {i \in DOMAIN table : table[i].email = toLowerCase(email)}
  IN  IF storeFails \/ matches = {}
        THEN {Null}
        ELSE {Some(table[i]) : i \in matches}

\* findAll: Scan with a ProjectionExpression that leaves passwordHash out
ProjectionAttrs ==
  {"userId", "email", "firstName", "lastName", "role", "isDisabled",
   "createdAt", "updatedAt", "avatarUrl"}

findAll ==
  { [f \in DOMAIN table[i] \cap ProjectionAttrs |-> table[i][f]] :
      i \in DOMAIN table }

----------------------------------------------------------------------------
(* UsersService.create *)

\* role of a new item: createUserDto.role || UserRole.ADMIN
createRole(dto) == IF "role" \in DOMAIN dto THEN dto.role ELSE ADMIN

\* the item built by create (an undefined avatarUrl is not stored)
userItem(userId, dto, hashedPassword, now) ==
  [ userId       |-> userId,
    email        |-> toLowerCase(dto.email),
    passwordHash |-> hashedPassword,
    firstName    |-> IF "firstName" \in DOMAIN dto THEN dto.firstName ELSE "",
    lastName     |-> IF "lastName" \in DOMAIN dto THEN dto.lastName ELSE "",
    role         |-> createRole(dto),
    isDisabled   |-> FALSE,
    createdAt    |-> now,
    updatedAt    |-> now ]
  @@ (IF "avatarUrl" \in DOMAIN dto
        THEN ("avatarUrl" :> dto.avatarUrl) ELSE << >>)

\* ConditionExpression of the PutCommand: attribute_not_exists(userId)
putCondition(userId) == userId \notin DOMAIN table

\* uuidv4(): the generated key is either a key in the table (the collision
\* the condition of the put guards against) or a new key; new keys are
\* interchangeable, the model takes the lowest one never used
FreshIds == UserIds \ (DOMAIN table \cup retired)

uuidv4 ==
  DOMAIN table \cup
  (IF FreshIds = {} THEN {}
   ELSE {CHOOSE i \in FreshIds : \A j \in FreshIds : i <= j})

----------------------------------------------------------------------------
(* UsersService.update *)

\* ExpressionAttributeValues of the UpdateCommand, keyed by the attribute
\* each value is assigned to: updatedAt, every DTO entry but password, and
\* passwordHash when a password is given
\* variant: a body without role resets the role, as create's default does
updateValuesDefaultingRole(dto, now, hashedPassword) ==
  ("updatedAt" :> now)
  @@ [k \in DOMAIN dto \ {"password"} |-> dto[k]]
  @@ (IF "password" \in DOMAIN dto
        THEN ("passwordHash" :> hashedPassword) ELSE << >>)
  @@ ("role" :> USER)

updateValues(dto, now, hashedPassword) ==
  ("updatedAt" :> now)
  @@ [k \in DOMAIN dto \ {"password"} |-> dto[k]]
  @@ (IF "password" \in DOMAIN dto
        THEN ("passwordHash" :> hashedPassword) ELSE << >>)

\* "Prevent updating if no valid fields were provided (except updatedAt)"
nothingToUpdate(dto, values) ==
  Cardinality(DOMAIN values) <= 1 /\ "password" \notin DOMAIN dto

\* the item after `SET a = :a, ...` (ReturnValues ALL_NEW)
\* variant: an update that does not set isDisabled flips it
applyUpdateFlippingDisabled(item, values) ==
  values @@ [f \in DOMAIN item |->
               IF f = "isDisabled" THEN ~item[f] ELSE item[f]]

\* variant: an attribute the item already has keeps its stored value
applyUpdateKeepingStored(item, values) == item @@ values

applyUpdate(item, values) == values @@ item

\* the table after UpdateCommand { Key: { userId }, SET ... } once its
\* condition has passed: UpdateItem writes the attributes to the item of that
\* key, and to a new item when the key has none
updateItem(userId, values) ==
  IF userId \in DOMAIN table
    THEN [table EXCEPT ![userId] = applyUpdate(table[userId], values)]
    ELSE (userId :> applyUpdate([userId |-> userId], values)) @@ table

\* variant: the commands carry no condition
noCondition(userId) == TRUE

\* ConditionExpression of UpdateCommand and DeleteCommand
attributeExists(userId) == userId \in DOMAIN table

----------------------------------------------------------------------------
(* JwtStrategy, RolesGuard, AuthService *)

\* variant: the DeleteCommand removes nothing
deleteNothing(userId) == table

\* UsersService.remove: the table after DeleteCommand { Key: { userId } }
deleteItem(userId) == [i \in DOMAIN table \ {userId} |-> table[i]]

NoToken == Null

\* a token whose signature was not made with the server's secret
ForgedToken ==
  [sub |-> 1, email |-> "a@x", role |-> ADMIN, avatarUrl |-> "null",
   iat |-> 0, exp |-> MaxClock + TokenTTL + 1, sig |-> FALSE]

\* passport-jwt: bearer token present, signature valid, not expired
passportVerify(tok) ==
  /\ tok # NoToken
  /\ tok[1].sig
  /\ clock < tok[1].exp

\* JwtStrategy.validate: throws 401 when the user is absent or disabled
\* variant: only the existence of the record is checked
validateRejectsAbsentOnly(user) == user = Null

\* variant: a password changed since the record was seeded also rejects
validateRejectsChangedPassword(user) ==
  \/ user = Null
  \/ user[1].isDisabled
  \/ user[1].passwordHash.salt # 0

validateRejects(user) ==
  \/ user = Null
  \/ user[1].isDisabled

\* JwtStrategy.validate: the AuthenticatedUser attached to the request
validate(payload) ==
  [userId |-> payload.sub, email |-> payload.email, role |-> payload.role,
   avatarUrl |-> payload.avatarUrl]

\* @Roles(...) of each route of UsersController
requiredRoles(op) ==
  IF op \in {"getProfile", "updateOwnProfile"} THEN {} ELSE {ADMIN}

\* variant: the guard lets every authenticated caller through
canActivateAnyRole(required, user) == TRUE

\* RolesGuard.canActivate
canActivate(required, user) ==
  IF required = {} THEN TRUE ELSE user.role \in required

\* variant: the isDisabled flag is not looked at
validateUserIgnoringDisabled(user, pass) ==
  IF user = Null THEN "null"
  ELSE IF bcryptCompare(pass, user[1].passwordHash) THEN "ok"
  ELSE "null"

\* variant: an unknown e-mail is reported like a disabled account
validateUserRevealingAbsence(user, pass) ==
  IF user = Null THEN "disabled"
  ELSE IF user[1].isDisabled THEN "disabled"
  ELSE IF bcryptCompare(pass, user[1].passwordHash) THEN "ok"
  ELSE "null"

\* AuthService.validateUser: "null", "disabled" (throws 401) or "ok"
validateUser(user, pass) ==
  IF user = Null THEN "null"
  ELSE IF user[1].isDisabled THEN "disabled"
  ELSE IF bcryptCompare(pass, user[1].passwordHash) THEN "ok"
  ELSE "null"

\* variant: every token is issued with the role USER
loginWithRoleUser(user) ==
  [ email     |-> user.email,
    sub       |-> user.userId,
    role      |-> USER,
    avatarUrl |-> IF "avatarUrl" \in DOMAIN user THEN user.avatarUrl
                  ELSE "null",
    iat       |-> clock,
    exp       |-> clock + TokenTTL,
    sig       |-> TRUE ]

\* AuthService.login: the payload handed to jwtService.sign, which adds iat
\* and exp and signs
login(user) ==
  [ email     |-> user.email,
    sub       |-> user.userId,
    role      |-> user.role,
    avatarUrl |-> IF "avatarUrl" \in DOMAIN user THEN user.avatarUrl
                  ELSE "null",
    iat       |-> clock,
    exp       |-> clock + TokenTTL,
    sig       |-> TRUE ]

----------------------------------------------------------------------------
(* UsersController: self-protection checks *)

\* variant: only a change of role is refused
updateForbiddenRoleOnly(id, adminUserId, dto) ==
  /\ id = adminUserId
  /\ "role" \in DOMAIN dto
  /\ dto.role # ADMIN

\* update: id === adminUserId &&
\*         (updateUserDto.role !== UserRole.ADMIN || updateUserDto.isDisabled)
updateForbidden(id, adminUserId, dto) ==
  /\ id = adminUserId
  /\ \/ ~("role" \in DOMAIN dto /\ dto.role = ADMIN)
     \/ ("isDisabled" \in DOMAIN dto /\ dto.isDisabled)

\* remove: id === adminUserId
removeForbidden(id, adminUserId) == id = adminUserId

\* variant: the record is returned as stored
withHash(user) == user

\* the body of findOne, getProfile and of the records returned by the
\* service: `const { passwordHash, ...result } = user`
withoutHash(user) == Omit(user, "passwordHash")

----------------------------------------------------------------------------
(* Bookkeeping of the model *)

NoResponse ==
  [op |-> "none", status |-> 0, message |-> "", body |-> << >>,
   req |-> << >>, pre |-> << >>]

\* the server takes a step once the previous response has left
Ready == last.op = "none"

\* any store command may throw (throttling, network), or not
FailChoices == BOOLEAN

FreeSlots == Slots \ DOMAIN reqs

NewSlot == CHOOSE s \in FreeSlots : \A t \in FreeSlots : s <= t

\* a request that goes on to a write command counts against MaxWrites
CanWrite == nreq < MaxWrites

\* the request awaits its next store call
Proceed(s, r) == reqs' = (s :> r) @@ reqs

\* the request leaves the server
Release(s) == reqs' = [t \in DOMAIN reqs \ {s} |-> reqs[t]]

\* the HTTP response, with the request it answers and, for the properties,
\* the table as it was before the responding step
Respond(req, status, message, body) ==
  last' = [op |-> req.op, status |-> status, message |-> message,
           body |-> body, req |-> req, pre |-> table]

EmailTaken(email) ==
  \E i \in DOMAIN table : table[i].email = toLowerCase(email)

\* what the table says about the subject of a token
Live(tok) ==
  IF tok[1].sub \notin DOMAIN table THEN "absent"
  ELSE IF table[tok[1].sub].isDisabled THEN "disabled"
  ELSE "enabled"

\* the role the table holds for the subject of a token
LiveRole(tok) ==
  IF tok[1].sub \in DOMAIN table THEN table[tok[1].sub].role ELSE "none"

\* the browser before any page of the application has been loaded
NoClient ==
  [token |-> Null, user |-> Null, authToken |-> Null,
   header |-> [sent |-> FALSE, auth |-> Null, token |-> Null],
   decodedAt |-> 0, call |-> "load",
   page |-> [path |-> "/login", view |-> "none", effect |-> FALSE,
             seen |-> [token |-> Null, user |-> Null, decodedAt |-> 0]]]

----------------------------------------------------------------------------
(* Initial state: the table holds two administrators *)

SeedUser(id, email, password, role) ==
  [ userId |-> id, email |-> email,
    passwordHash |-> bcryptHash(password, 0),
    firstName |-> "", lastName |-> "", role |-> role, isDisabled |-> FALSE,
    createdAt |-> 0, updatedAt |-> 0 ]

Init ==
  /\ table = (1 :> SeedUser(1, "a@x", "password1", ADMIN))
             @@ (2 :> SeedUser(2, "b@x", "password2", ADMIN))
  /\ retired = {}
  /\ clock = 0
  /\ tokens = {}
  /\ reqs = << >>
  /\ last = NoResponse
  /\ nreq = 0
  /\ client = NoClient

----------------------------------------------------------------------------
(* Time, and the response leaving the server *)

Tick ==
  /\ Ready
  /\ UNCHANGED client
  /\ clock < MaxClock
  /\ clock' = clock + 1
  /\ UNCHANGED <<table, retired, tokens, reqs, last, nreq>>

Deliver ==
  /\ ~Ready
  /\ UNCHANGED client
  /\ last' = NoResponse
  /\ UNCHANGED <<table, retired, clock, tokens, reqs, nreq>>

----------------------------------------------------------------------------
(* POST /auth/login: AuthController.login, AuthService.validateUser/login *)

Login(email, pass) ==
  /\ Ready
  /\ UNCHANGED client
  /\ \E fail \in FailChoices : \E user \in findOneByEmail(email, fail) :
       LET req == [op |-> "login", email |-> email, password |-> pass,
                   found |-> user, taken |-> EmailTaken(email)]
           v == validateUser(user, pass)
           tok == login(withoutHash(user[1]))
       IN  /\ UNCHANGED <<table, retired, clock, reqs, nreq>>
           /\ IF v = "ok"
                THEN /\ tokens' = IF Cardinality(tokens \cup {tok}) <= MaxTokens
                                    THEN tokens \cup {tok} ELSE tokens
                     /\ Respond(req, 200, "", [access_token |-> tok])
                ELSE /\ tokens' = tokens
                     /\ IF v = "disabled"
                          THEN Respond(req, 401,
                                 "Account has been disabled. Try again later.",
                                 << >>)
                          ELSE Respond(req, 401, "Invalid credentials", << >>)

----------------------------------------------------------------------------
(* UsersService.create, reached from POST /auth/register and POST /users *)

\* first await of create: the e-mail lookup
createLookup(s, req, dto) ==
  \E fail \in FailChoices : \E existingUser \in findOneByEmail(dto.email, fail) :
    LET r == [dto |-> dto, taken |-> EmailTaken(dto.email), n |-> nreq + 1,
              pc |-> "put"] @@ req
    IN  /\ UNCHANGED <<table, retired, clock, tokens>>
        /\ IF existingUser # Null
             THEN /\ Respond(r, 409, "Email already registered.", << >>)
                  /\ Release(s)
                  /\ nreq' = nreq
             ELSE /\ CanWrite
                  /\ Proceed(s, r)
                  /\ nreq' = nreq + 1
                  /\ last' = last

\* POST /auth/register: no guard, the body is a CreateUserDto
Register(dto) ==
  /\ Ready
  /\ UNCHANGED client
  /\ FreeSlots # {}
  /\ createLookup(NewSlot, [op |-> "register"], dto)

\* second part of create: hash, build the item, conditional put
CreatePut(s) ==
  /\ Ready
  /\ UNCHANGED client
  /\ s \in DOMAIN reqs
  /\ reqs[s].pc = "put"
  /\ \E userId \in uuidv4 : \E fail \in FailChoices :
       LET r == reqs[s]
           item == userItem(userId, r.dto, bcryptHash(r.dto.password, r.n),
                            clock)
           ok == ~fail /\ putCondition(userId)
       IN  /\ table' = IF ok THEN (userId :> item) @@ table ELSE table
           /\ UNCHANGED <<retired, clock, tokens, nreq>>
           /\ Release(s)
           /\ IF ok
                THEN Respond(r, 201, "", withoutHash(item))
              ELSE IF r.op = "register"
                \* AuthController.register catches the error and returns
                THEN Respond(r, 201, "", << >>)
              ELSE IF fail
                THEN Respond(r, 500, "Could not create user.", << >>)
                ELSE Respond(r, 500,
                       "Failed to create user due to ID conflict.", << >>)

----------------------------------------------------------------------------
(* JwtAuthGuard on every route of UsersController *)

BearerTokens == {NoToken, Some(ForgedToken)} \cup {Some(t) : t \in tokens}

\* passport verifies the token, JwtStrategy.validate re-fetches the user.
\* The route's RolesGuard, pipes and handler run after this await.
Authenticate(tok) ==
  /\ Ready
  /\ UNCHANGED client
  /\ FreeSlots # {}
  /\ UNCHANGED <<table, retired, clock, tokens, nreq>>
  /\ LET req == [op |-> "users", tok |-> tok] IN
     IF ~passportVerify(tok)
       THEN /\ Respond(req, 401, "Unauthorized", << >>)
            /\ UNCHANGED reqs
       ELSE \E fail \in FailChoices :
              LET user == findOneById(tok[1].sub, fail)
                  r == [live |-> Live(tok), liveRole |-> LiveRole(tok),
                        threw |-> fail,
                        user |-> validate(tok[1]), pc |-> "guarded"] @@ req
              IN  /\ IF validateRejects(user)
                       THEN /\ Respond(r, 401, "User not found or disabled.",
                                       << >>)
                            /\ reqs' = reqs
                       ELSE /\ Proceed(NewSlot, r)
                            /\ last' = last

\* the request in slot s has passed JwtAuthGuard and is for route op
Guarded(s) ==
  /\ Ready
  /\ s \in DOMAIN reqs
  /\ reqs[s].pc = "guarded"

Routed(s, op) == [op |-> op] @@ reqs[s]

\* RolesGuard.canActivate returned false: 403, nothing else happens
Forbid(s, op) ==
  /\ UNCHANGED <<table, retired, clock, tokens, nreq>>
  /\ Respond(Routed(s, op), 403, "Forbidden resource", << >>)
  /\ Release(s)

Allowed(s, op) == canActivate(requiredRoles(op), reqs[s].user)

NotFound == "User not found"

----------------------------------------------------------------------------
(* UsersController: reads *)

\* GET /users/profile
GetProfile(s) ==
  /\ Guarded(s)
  /\ UNCHANGED client
  /\ IF ~Allowed(s, "getProfile") THEN Forbid(s, "getProfile") ELSE
     \E fail \in FailChoices :
       LET r == Routed(s, "getProfile")
           user == findOneById(r.user.userId, fail)
       IN  /\ UNCHANGED <<table, retired, clock, tokens, nreq>>
           /\ Release(s)
           /\ IF user = Null
                THEN Respond(r, 404, NotFound, << >>)
                ELSE Respond(r, 200, "", withoutHash(user[1]))

\* GET /users
FindAll(s) ==
  /\ Guarded(s)
  /\ UNCHANGED client
  /\ IF ~Allowed(s, "findAll") THEN Forbid(s, "findAll") ELSE
     \E fail \in FailChoices :
       LET r == Routed(s, "findAll")
       IN  /\ UNCHANGED <<table, retired, clock, tokens, nreq>>
           /\ Release(s)
           /\ IF fail
                THEN Respond(r, 500, "Could not retrieve users.", << >>)
                ELSE Respond(r, 200, "", findAll)

\* GET /users/:id
FindOne(s) ==
  /\ Guarded(s)
  /\ UNCHANGED client
  /\ IF ~Allowed(s, "findOne") THEN Forbid(s, "findOne") ELSE
     \E id \in UserIds : \E fail \in FailChoices :
       LET r == [id |-> id] @@ Routed(s, "findOne")
           user == findOneById(id, fail)
       IN  /\ UNCHANGED <<table, retired, clock, tokens, nreq>>
           /\ Release(s)
           /\ IF user = Null
                THEN Respond(r, 404, NotFound, << >>)
                ELSE Respond(r, 200, "", withoutHash(user[1]))

----------------------------------------------------------------------------
(* UsersController: writes *)

\* POST /users: the e-mail lookup of UsersService.create
UsersCreate(s) ==
  /\ Guarded(s)
  /\ UNCHANGED client
  /\ IF ~Allowed(s, "create") THEN Forbid(s, "create") ELSE
     \E dto \in CreateUserDtos : createLookup(s, Routed(s, "create"), dto)

\* PATCH /users/:id with a body of Dtos: the self-protection check, then
\* UsersService.update reads the clock and builds the expression
UsersUpdate(s, Dtos) ==
  /\ Guarded(s)
  /\ UNCHANGED client
  /\ IF ~Allowed(s, "update") THEN Forbid(s, "update") ELSE
     \E id \in UserIds : \E body \in Dtos :
       LET dto == whitelist(body, UpdateUserDtoFields)
           r == [id |-> id, body |-> body, dto |-> dto, now |-> clock,
                 n |-> nreq + 1, pc |-> "write"] @@ Routed(s, "update")
       IN  /\ UNCHANGED <<table, retired, clock, tokens>>
           /\ IF updateForbidden(id, r.user.userId, dto)
                THEN /\ Respond(r, 403,
                          "Admins cannot change their own role or disable themselves.",
                          << >>)
                     /\ Release(s)
                     /\ nreq' = nreq
                ELSE /\ CanWrite
                     /\ Proceed(s, r)
                     /\ nreq' = nreq + 1
                     /\ last' = last

Update(s) == UsersUpdate(s, UpdateUserDtos)

\* PATCH /users/profile with a body of Dtos: UsersService.update on the
\* caller's own id
UsersUpdateOwnProfile(s, Dtos) ==
  /\ Guarded(s)
  /\ UNCHANGED client
  /\ IF ~Allowed(s, "updateOwnProfile") THEN Forbid(s, "updateOwnProfile") ELSE
     \E body \in Dtos :
       /\ CanWrite
       /\ Proceed(s, [id |-> reqs[s].user.userId, body |-> body,
                      dto |-> whitelist(body, UpdateProfileDtoFields),
                      now |-> clock, n |-> nreq + 1, pc |-> "write"]
                     @@ Routed(s, "updateOwnProfile"))
       /\ nreq' = nreq + 1
       /\ UNCHANGED <<table, retired, clock, tokens, last>>

UpdateOwnProfile(s) == UsersUpdateOwnProfile(s, UpdateProfileDtos)

\* UsersService.update: the store call (a read when there is nothing to
\* update, else the conditional UpdateCommand)
UpdateWrite(s) ==
  /\ Ready
  /\ UNCHANGED client
  /\ s \in DOMAIN reqs
  /\ reqs[s].pc = "write"
  /\ \E fail \in FailChoices :
       LET r == reqs[s]
           hashedPassword ==
             IF "password" \in DOMAIN r.dto
               THEN bcryptHash(r.dto.password, r.n) ELSE Null
           values == updateValues(r.dto, r.now, hashedPassword)
           currentUser == findOneById(r.id, fail)
           ok == ~fail /\ attributeExists(r.id)
           updated == updateItem(r.id, values)[r.id]
       IN  /\ UNCHANGED <<retired, clock, tokens, nreq>>
           /\ Release(s)
           /\ IF nothingToUpdate(r.dto, values)
                THEN /\ table' = table
                     /\ IF currentUser = Null
                          THEN Respond(r, 404, NotFound, << >>)
                          ELSE Respond(r, 200, "", withoutHash(currentUser[1]))
              ELSE IF ok
                THEN /\ table' = updateItem(r.id, values)
                     /\ Respond(r, 200, "", withoutHash(updated))
                ELSE /\ table' = table
                     /\ IF fail
                          THEN Respond(r, 500, "Could not update user.", << >>)
                          ELSE Respond(r, 404, NotFound, << >>)

\* DELETE /users/:id: the self-protection check, then UsersService.remove
Remove(s) ==
  /\ Guarded(s)
  /\ UNCHANGED client
  /\ IF ~Allowed(s, "remove") THEN Forbid(s, "remove") ELSE
     \E id \in UserIds :
       LET r == [id |-> id] @@ Routed(s, "remove") IN
       /\ UNCHANGED <<clock, tokens>>
       /\ Release(s)
       /\ IF removeForbidden(id, r.user.userId)
            THEN /\ UNCHANGED <<table, retired, nreq>>
                 /\ Respond(r, 403, "Admins cannot delete their own account.",
                            << >>)
            ELSE \E fail \in FailChoices :
                   LET ok == ~fail /\ attributeExists(id)
                   IN  /\ CanWrite
                       /\ nreq' = nreq + 1
                       /\ table' = IF ok THEN deleteItem(id) ELSE table
                       /\ retired' = IF ok THEN retired \cup {id} ELSE retired
                       /\ IF ok THEN Respond(r, 204, "", << >>)
                          ELSE IF fail
                            THEN Respond(r, 500, "Could not delete user.", << >>)
                            ELSE Respond(r, 404, NotFound, << >>)

----------------------------------------------------------------------------
(* The system: requests arrive, interleave at their store calls, respond *)

Next ==
  \/ Deliver
  \/ \E email \in LoginEmails, pass \in Passwords : Login(email, pass)
  \/ \E dto \in CreateUserDtos : Register(dto)
  \/ \E tok \in BearerTokens : Authenticate(tok)
  \/ \E s \in Slots : CreatePut(s)
  \/ \E s \in Slots : GetProfile(s)
  \/ \E s \in Slots : FindAll(s)
  \/ \E s \in Slots : FindOne(s)
  \/ \E s \in Slots : UsersCreate(s)
  \/ \E s \in Slots : Update(s)
  \/ \E s \in Slots : UpdateOwnProfile(s)
  \/ \E s \in Slots : UpdateWrite(s)
  \/ \E s \in Slots : Remove(s)

Spec == Init /\ [][Next]_vars

----------------------------------------------------------------------------
(* One PATCH in isolation, over every body: an administrator's request has  *)
(* passed JwtAuthGuard; the stored records have been created or updated     *)
(* before, at any time up to now.                                           *)

StoredVariants(id, email, password) ==
  { SeedUser(id, email, password, ADMIN) }
  \cup { [ userId |-> id, email |-> email,
           passwordHash |-> bcryptHash(password, 0),
           firstName |-> "Ann", lastName |-> "Moe", role |-> r,
           isDisabled |-> d, createdAt |-> 0, updatedAt |-> u,
           avatarUrl |-> "http://img/1" ] :
         r \in UserRole, d \in BOOLEAN, u \in 0..MaxClock }

InitUpdate ==
  /\ clock \in 0..MaxClock
  /\ \E u1 \in StoredVariants(1, "a@x", "password1") :
     \E u2 \in StoredVariants(2, "b@x", "password2") :
       /\ u1.updatedAt <= clock
       /\ u2.updatedAt <= clock
       /\ table = (1 :> u1) @@ (2 :> u2)
  /\ retired = {}
  /\ LET tok == [ email |-> "a@x", sub |-> 1, role |-> ADMIN,
                  avatarUrl |-> "null", iat |-> 0, exp |-> TokenTTL,
                  sig |-> TRUE ]
     IN  /\ tokens = {tok}
         /\ reqs = (1 :> [ op |-> "users", tok |-> Some(tok),
                           live |-> "enabled", liveRole |-> ADMIN,
                           user |-> validate(tok), pc |-> "guarded" ])
  /\ last = NoResponse
  /\ nreq = 0
  /\ client = NoClient

NextUpdate ==
  \/ Tick
  \/ Deliver
  \/ \E s \in Slots : UsersUpdate(s, AllUpdateUserDtos)
  \/ \E s \in Slots : UsersUpdateOwnProfile(s, AllUpdateProfileDtos)
  \/ \E s \in Slots : UpdateWrite(s)

SpecUpdate == InitUpdate /\ [][NextUpdate]_vars

----------------------------------------------------------------------------
(* Properties.  `last` is the response that has just been produced, with    *)
(* the request it answers (last.req) and the table before the responding    *)
(* step (last.pre).                                                         *)

CreateOps == {"register", "create"}

UpdateOps == {"update", "updateOwnProfile"}

AdminOps == {"create", "findAll", "findOne", "update", "remove"}

\* the records of tbl stored under a normalized e-mail
WithEmail(tbl, email) == {i \in DOMAIN tbl : tbl[i].email = toLowerCase(email)}

\* the response answers a create whose e-mail lookup has been made
IsCreateResponse == last.op \in CreateOps /\ "dto" \in DOMAIN last.req

\* the stored attribute a body field is written to
Attr(k) == IF k = "password" THEN "passwordHash" ELSE k

AllAttrs == ProjectionAttrs \cup {"passwordHash"}

\* the attributes a partial update must leave alone
AbsentAttrs(dto) == AllAttrs \ ({Attr(k) : k \in DOMAIN dto} \cup {"updatedAt"})

Kept(before, after, attrs) ==
  \A f \in attrs :
    /\ (f \in DOMAIN before) <=> (f \in DOMAIN after)
    /\ f \in DOMAIN before => after[f] = before[f]

\* the response answers a successful update of a record that existed
IsUpdateResponse ==
  /\ last.op \in UpdateOps
  /\ last.status = 200
  /\ last.req.id \in DOMAIN last.pre

\* C1: a create request (register or POST /users) whose lower-cased e-mail is
\* the e-mail of a record in the table at the time of its lookup is refused
\* and leaves the table unchanged: it is answered 409 (or, when a store
\* command throws, without a created record) and no second record with that
\* e-mail is written.
DuplicateEmailCreateConflicts ==
  (IsCreateResponse /\ last.req.taken)
    => /\ last.status = 409 \/ DOMAIN last.body = {}
       /\ table = last.pre

\* C2: under any interleaving of create requests, the table holds at most one
\* record per normalized e-mail; stated for the creates that found the e-mail
\* free at their lookup, which is the case of concurrent registrations: after
\* such a create has written its record, no other record has that e-mail.
EmailUniqueUnderConcurrentCreates ==
  (IsCreateResponse /\ ~last.req.taken /\ table # last.pre)
    => Cardinality(WithEmail(table, last.req.dto.email)) <= 1

\* C3: a request with a correctly signed, unexpired token whose subject's
\* record is disabled or absent when JwtStrategy.validate runs is answered
\* 401; no such request goes on to a guard or a handler.
DisabledOrDeletedTokenRejected ==
  /\ \A s \in DOMAIN reqs :
       "live" \in DOMAIN reqs[s] => reqs[s].live = "enabled"
  /\ (last.op # "none" /\ "live" \in DOMAIN last.req
        /\ last.req.live # "enabled")
       => (last.status = 401 /\ table = last.pre)

DisabledTokenRejectedWitness ==
  /\ last.op = "users"
  /\ "live" \in DOMAIN last.req
  /\ last.req.live = "disabled"
  /\ passportVerify(last.req.tok)
  /\ last.status = 401

\* C4: the role used for authorization is the caller's stored role at the
\* time of the request: a request to an admin-only endpoint whose caller's
\* stored role is not ADMIN when the request is authenticated is answered
\* 403, whatever role its token carries.
AdminRoutesUseStoredRole ==
  (last.op \in AdminOps /\ last.req.liveRole # ADMIN) => last.status = 403

\* an administrator's PATCH /users/:id on their own id that sets a role other
\* than ADMIN or sets isDisabled to true
SelfDemoteOrDisable(r) ==
  /\ r.id = r.user.userId
  /\ \/ ("role" \in DOMAIN r.dto /\ r.dto.role # ADMIN)
     \/ ("isDisabled" \in DOMAIN r.dto /\ r.dto.isDisabled)

\* C5: an administrator's PATCH /users/:id on their own id that sets role to
\* a value other than ADMIN or isDisabled to true is answered 403 and changes
\* nothing (it never reaches the store call); an administrator's DELETE
\* /users/:id on their own id is answered 403 and changes nothing.
AdminSelfProtection ==
  /\ \A s \in DOMAIN reqs :
       (reqs[s].op = "update" /\ reqs[s].pc = "write")
         => ~SelfDemoteOrDisable(reqs[s])
  /\ (last.op = "update" /\ "dto" \in DOMAIN last.req
        /\ SelfDemoteOrDisable(last.req))
       => (last.status = 403 /\ table = last.pre)
  /\ (last.op = "remove" /\ "id" \in DOMAIN last.req
        /\ last.req.id = last.req.user.userId)
       => (last.status = 403 /\ table = last.pre)

AdminSelfProtectionWitness ==
  /\ last.op = "update"
  /\ "dto" \in DOMAIN last.req
  /\ last.req.id = last.req.user.userId
  /\ DOMAIN last.req.dto = {"role", "isDisabled"}
  /\ last.req.dto.role = ADMIN
  /\ last.req.dto.isDisabled
  /\ last.status = 403

\* C6, as stated: after a successful partial update of an existing record,
\* with any subset of the optional fields as body, each absent field keeps its
\* stored value and updatedAt is strictly later than before; stated for the
\* requests that start after the time of the stored updatedAt.
UpdateAlwaysAdvancesUpdatedAt ==
  (IsUpdateResponse /\ last.req.now > last.pre[last.req.id].updatedAt)
    => /\ Kept(last.pre[last.req.id], table[last.req.id],
               AbsentAttrs(last.req.dto))
       /\ table[last.req.id].updatedAt > last.pre[last.req.id].updatedAt

\* C6, amended: after a successful partial update of an existing record, each
\* absent field keeps its stored value; a body with at least one field sets
\* updatedAt to the time read when the request started, and an empty body
\* leaves the whole record, updatedAt included, as it was.
UpdateKeepsAbsentFields ==
  IsUpdateResponse
    => /\ Kept(last.pre[last.req.id], table[last.req.id],
               AbsentAttrs(last.req.dto))
       /\ IF DOMAIN last.req.dto = {}
            THEN table = last.pre
            ELSE table[last.req.id].updatedAt = last.req.now

UpdateKeepsAbsentFieldsWitness ==
  /\ IsUpdateResponse
  /\ DOMAIN last.req.dto = {"firstName", "isDisabled"}
  /\ last.pre[last.req.id].lastName = "Moe"
  /\ last.pre[last.req.id].role = USER
  /\ table[last.req.id].firstName # last.pre[last.req.id].firstName
  /\ table[last.req.id].updatedAt > last.pre[last.req.id].updatedAt

\* the records and claims a response carries
Carried ==
  IF last.status \notin {200, 201} THEN {}
  ELSE IF last.op = "login" THEN {last.body.access_token}
  ELSE IF last.op = "findAll" THEN last.body
  ELSE {last.body}

\* C7: no response body and no issued token contains the passwordHash of a
\* stored record.
NoPasswordHashLeaves ==
  /\ \A u \in Carried : "passwordHash" \notin DOMAIN u
  /\ \A t \in tokens : "passwordHash" \notin DOMAIN t

NoPasswordHashLeavesWitness ==
  /\ last.op = "findOne"
  /\ last.status = 200
  /\ last.body.userId \in DOMAIN last.pre
  /\ "passwordHash" \in DOMAIN last.pre[last.body.userId]
  /\ last.body.email = last.pre[last.body.userId].email

\* the login found the stored record, which is enabled
LoginOfEnabledUser ==
  /\ last.op = "login"
  /\ last.req.found # Null
  /\ ~last.req.found[1].isDisabled

\* C8: a login with the correct password for an existing, enabled user, whose
\* record the store returns, is answered 200 with a token whose sub, email
\* and role are the userId, email and role of that stored record.
LoginTokenMatchesRecord ==
  (LoginOfEnabledUser
     /\ bcryptCompare(last.req.password, last.req.found[1].passwordHash))
    => /\ last.status = 200
       /\ last.req.found[1].userId \in DOMAIN last.pre
       /\ LET user == last.pre[last.req.found[1].userId]
              claims == last.body.access_token
          IN  /\ claims.sub = user.userId
              /\ claims.email = user.email
              /\ claims.role = user.role

LoginTokenMatchesRecordWitness ==
  /\ LoginOfEnabledUser
  /\ last.status = 200
  /\ last.req.email = "A@x"
  /\ last.body.access_token.role = ADMIN

\* C9: a login with a wrong password for an existing enabled user and a login
\* with an e-mail that has no record get the same response: 401, the message
\* 'Invalid credentials', no body.
LoginFailuresAlike ==
  (last.op = "login"
     /\ \/ ~last.req.taken
        \/ /\ LoginOfEnabledUser
           /\ ~bcryptCompare(last.req.password, last.req.found[1].passwordHash))
    => /\ last.status = 401
       /\ last.message = "Invalid credentials"
       /\ DOMAIN last.body = {}

LoginFailuresAlikeWitness ==
  /\ LoginOfEnabledUser
  /\ ~bcryptCompare(last.req.password, last.req.found[1].passwordHash)
  /\ last.status = 401
  /\ last.message = "Invalid credentials"

\* C10: the record written by a successful create (of an e-mail that was free
\* at the lookup) has isDisabled = false, a
\* userId no record had before, and createdAt = updatedAt; without a role in
\* the request its role is USER, and with a role in a POST /users it has that
\* role.
CreatedRecordDefaults ==
  (IsCreateResponse /\ ~last.req.taken /\ last.status = 201
     /\ table # last.pre)
    => LET dto == last.req.dto
           item == table[last.body.userId]
       IN  /\ last.body.userId \notin DOMAIN last.pre
           /\ ~item.isDisabled
           /\ item.createdAt = item.updatedAt
           /\ "role" \notin DOMAIN dto => item.role = USER
           /\ (last.op = "create" /\ "role" \in DOMAIN dto)
                => item.role = dto.role

\* the request has got past RolesGuard of an admin-only route
ReachedAdminHandler(r) ==
  /\ r.op \in AdminOps
  /\ ~("pc" \in DOMAIN r /\ r.pc = "guarded")

\* the response was produced by the handler of an admin-only route
AdminHandlerResponse ==
  /\ last.op \in AdminOps
  /\ last.message # "Forbidden resource"

\* C11: a request reaches the handler of an admin-only endpoint only with a
\* valid token and the role ADMIN attached to it by JwtStrategy; with the role
\* USER it is answered 403, without a valid token 401, the table unchanged in
\* both cases; the profile routes are never refused for the caller's role.
AdminRoutesNeedAdmin ==
  /\ \A s \in DOMAIN reqs :
       ReachedAdminHandler(reqs[s])
         => (reqs[s].tok # NoToken /\ reqs[s].tok[1].sig
               /\ reqs[s].user.role = ADMIN)
  /\ AdminHandlerResponse
       => (passportVerify(last.req.tok) /\ last.req.user.role = ADMIN)
  /\ (last.op \in AdminOps /\ last.req.user.role = USER)
       => (last.status = 403 /\ table = last.pre)
  /\ (last.op = "users" /\ ~passportVerify(last.req.tok))
       => (last.status = 401 /\ table = last.pre)
  /\ last.op \in {"getProfile", "updateOwnProfile"} => last.status # 403
  /\ \A s \in DOMAIN reqs :
       ("user" \in DOMAIN reqs[s] /\ reqs[s].user.role = USER
          /\ reqs[s].pc # "guarded")
         => reqs[s].op = "updateOwnProfile"

AdminRoutesNeedAdminWitness ==
  /\ last.op \in AdminOps
  /\ last.req.user.role = USER
  /\ last.req.liveRole = USER
  /\ last.status = 403
  /\ last.message = "Forbidden resource"

\* C12: a login for a record that is disabled at the time of the login, for
\* an e-mail with no record, or with a password that does not match the
\* stored hash, is answered 401 and no token is issued.
NoTokenForBadLogin ==
  (last.op = "login"
     /\ \/ ~last.req.taken
        \/ /\ last.req.found # Null
           /\ \/ last.req.found[1].isDisabled
              \/ ~bcryptCompare(last.req.password,
                                last.req.found[1].passwordHash))
    => /\ last.status = 401
       /\ DOMAIN last.body = {}

NoTokenForBadLoginWitness ==
  /\ last.op = "login"
  /\ last.req.found # Null
  /\ last.req.found[1].isDisabled
  /\ bcryptCompare(last.req.password, last.req.found[1].passwordHash)
  /\ last.status = 401

\* the response answers an administrator's DELETE of another user's id that
\* got its answer from the store
IsRemoveResponse ==
  /\ last.op = "remove"
  /\ "id" \in DOMAIN last.req
  /\ last.req.id # last.req.user.userId
  /\ last.status # 500

\* C13: an administrator's DELETE /users/:id on another id, when the store
\* answers: if the record exists it is removed, every other record is
\* unchanged and the answer is 204; if not, the answer is 404 and the table is
\* unchanged (so a repeated DELETE is answered 404).
RemoveDeletesOrNotFound ==
  /\ IsRemoveResponse
       => IF last.req.id \in DOMAIN last.pre
            THEN /\ last.status = 204
                 /\ DOMAIN table = DOMAIN last.pre \ {last.req.id}
                 /\ \A i \in DOMAIN table : table[i] = last.pre[i]
            ELSE /\ last.status = 404
                 /\ table = last.pre
  /\ (last.op = "remove" /\ last.status = 500) => table = last.pre

RemoveDeletesOrNotFoundWitness ==
  /\ IsRemoveResponse
  /\ last.status = 404
  /\ last.req.id \in retired

\* the response answers the store call of an update (a 403 is answered by a
\* guard or by the controller, before UsersService.update is called)
IsUpdateWriteResponse ==
  /\ last.op \in UpdateOps
  /\ "dto" \in DOMAIN last.req
  /\ last.status # 403

\* C14: an update whose target id has no record at the time of the write is
\* answered 404 (500 when the store command throws) for every payload, the
\* empty one included, and writes nothing: no record is created, and a record
\* deleted after the caller's authentication is not brought back.
UpdateOfAbsentNotFound ==
  /\ (IsUpdateWriteResponse /\ last.req.id \notin DOMAIN last.pre)
       => /\ last.status \in {404, 500}
          /\ table = last.pre
  /\ \A i \in retired : i \notin DOMAIN table

UpdateOfAbsentNotFoundWitness ==
  /\ IsUpdateWriteResponse
  /\ last.req.id \in retired
  /\ DOMAIN last.req.dto # {}
  /\ last.status = 404
  /\ last.message = NotFound

----------------------------------------------------------------------------
(* The same PATCH /users/:id sent twice in a row: an administrator's        *)
(* request has passed JwtAuthGuard; once it is answered 200 the client      *)
(* sends the same body again.                                               *)

InitTwice ==
  /\ clock = 0
  /\ \E u2 \in StoredVariants(2, "b@x", "password2") :
       /\ u2.updatedAt <= clock
       /\ table = (1 :> SeedUser(1, "a@x", "password1", ADMIN)) @@ (2 :> u2)
  /\ retired = {}
  /\ LET tok == [ email |-> "a@x", sub |-> 1, role |-> ADMIN,
                  avatarUrl |-> "null", iat |-> 0, exp |-> TokenTTL,
                  sig |-> TRUE ]
     IN  /\ tokens = {tok}
         /\ reqs = (1 :> [ op |-> "users", tok |-> Some(tok),
                           live |-> "enabled", liveRole |-> ADMIN,
                           user |-> validate(tok), pc |-> "guarded" ])
  /\ last = NoResponse
  /\ nreq = 0
  /\ client = NoClient

\* the client has its 200 and sends the request again with the same token,
\* which JwtStrategy.validate accepts again; `again` remembers the body, the
\* id and the record as the first request left it
Resend ==
  /\ last.op = "update"
  /\ UNCHANGED client
  /\ last.status = 200
  /\ "again" \notin DOMAIN last.req
  /\ FreeSlots # {}
  /\ ~validateRejects(findOneById(last.req.user.userId, FALSE))
  /\ reqs' = (NewSlot :>
               [ op |-> "users", tok |-> last.req.tok,
                 live |-> "enabled",
                 liveRole |-> table[last.req.user.userId].role,
                 user |-> validate(last.req.tok[1]), pc |-> "guarded",
                 again |-> [ id |-> last.req.id, dto |-> last.req.dto,
                             once |-> table[last.req.id] ] ]) @@ reqs
  /\ last' = NoResponse
  /\ UNCHANGED <<table, retired, clock, tokens, nreq>>

\* the first PATCH, with any body
UpdateFirst(s) ==
  /\ s \in DOMAIN reqs
  /\ "again" \notin DOMAIN reqs[s]
  /\ UsersUpdate(s, AllUpdateUserDtos)

\* the second PATCH, with the body of the first
UpdateAgain(s) ==
  /\ s \in DOMAIN reqs
  /\ "again" \in DOMAIN reqs[s]
  /\ UsersUpdate(s, {reqs[s].again.dto})

NextTwice ==
  \/ Tick
  \/ Deliver
  \/ Resend
  \/ \E s \in Slots : UpdateFirst(s)
  \/ \E s \in Slots : UpdateAgain(s)
  \/ \E s \in Slots : UpdateWrite(s)

SpecTwice == InitTwice /\ [][NextTwice]_vars

\* the response answers the second of two identical PATCH /users/:id
IsRepeatResponse ==
  /\ last.op = "update"
  /\ "again" \in DOMAIN last.req
  /\ last.req.id = last.req.again.id
  /\ last.status # 403

SameCredential(h1, h2) ==
  \A p \in Passwords : bcryptCompare(p, h1) = bcryptCompare(p, h2)

\* C15, as stated: after the same PATCH /users/:id body has been applied twice
\* in a row to an existing record, every stored field other than updatedAt is
\* equal to its value after the first application.
RepeatedUpdateSameRecord ==
  IsRepeatResponse
    => Kept(last.req.again.once, table[last.req.id],
            AllAttrs \ {"updatedAt"})

\* C15, amended: after the same body has been applied twice in a row, every
\* stored field other than updatedAt and passwordHash is equal to its value
\* after the first application; a body with a password stores a new hash
\* (fresh salt) that verifies exactly the same passwords, and a body without
\* one leaves the hash as it was.
RepeatedUpdateSameState ==
  IsRepeatResponse
    => LET once == last.req.again.once
           twice == table[last.req.id]
       IN  /\ Kept(once, twice, AllAttrs \ {"updatedAt", "passwordHash"})
           /\ SameCredential(once.passwordHash, twice.passwordHash)
           /\ "password" \notin DOMAIN last.req.dto
                => twice.passwordHash = once.passwordHash

RepeatedUpdateSameStateWitness ==
  /\ IsRepeatResponse
  /\ last.status = 200
  /\ DOMAIN last.req.dto = {"password", "firstName", "isDisabled"}
  /\ table[last.req.id].passwordHash # last.req.again.once.passwordHash
  /\ table[last.req.id].updatedAt > last.req.again.once.updatedAt

\* the response shows that the read of the responding request threw: the
\* record was in the table and the request was treated as if it were not
LookupThrew ==
  \/ /\ last.op = "login"
     /\ last.req.taken
     /\ last.req.found = Null
  \/ /\ last.op = "users"
     /\ "live" \in DOMAIN last.req
     /\ last.req.live = "enabled"
  \/ /\ last.op = "findOne"
     /\ "id" \in DOMAIN last.req
     /\ last.req.id \in DOMAIN last.pre
     /\ last.status # 200
  \/ /\ last.op = "getProfile"
     /\ last.req.user.userId \in DOMAIN last.pre
     /\ last.status # 200

\* C16: a request during which the store throws is answered 500, never 401,
\* 404 or a success; stated for the reads of findOneByEmail (login) and
\* findOneById (JwtStrategy.validate, GET /users/:id, GET /users/profile).
StoreFailureAnswered500 == LookupThrew => last.status = 500

\* C17: POST /auth/register answers 201 only when a new record was written,
\* with that record without its hash as body; when no record is written the
\* answer is an error status (400, 409 or 500), never a 201 with an empty body.
RegisterCreatedMeansWritten ==
  /\ (last.op = "register" /\ last.status = 201)
       => /\ DOMAIN last.body # {}
          /\ last.body.userId \in DOMAIN table \ DOMAIN last.pre
          /\ last.body = withoutHash(table[last.body.userId])
  /\ (last.op = "register" /\ table = last.pre)
       => last.status \in {400, 409, 500}

\* the e-mail addresses of the model, grouped by equality up to letter case,
\* and the lower-case ones among them
CaseClasses == {{"a@x", "A@x"}, {"b@x"}, {"c@x", "C@x"}}

LowerCaseEmails == {"a@x", "b@x", "c@x"}

SameIgnoringCase(e, f) == \E c \in CaseClasses : e \in c /\ f \in c

StoredIgnoringCase(tbl, e) ==
  \E i \in DOMAIN tbl : SameIgnoringCase(tbl[i].email, e)

\* C18: every stored e-mail is lower-case, and the e-mail lookup is
\* case-insensitive: when the store answers it finds a record exactly when a
\* stored e-mail equals the given one up to letter case, so that a create of
\* such an e-mail is a conflict and a login with any casing of a registered
\* e-mail and the right password succeeds.
EmailsCaseNormalized ==
  /\ \A i \in DOMAIN table : table[i].email \in LowerCaseEmails
  /\ \A e \in LoginEmails :
       /\ (findOneByEmail(e, FALSE) # {Null}) <=> StoredIgnoringCase(table, e)
       /\ \A u \in findOneByEmail(e, FALSE) :
            u # Null => SameIgnoringCase(u[1].email, e)
  /\ (IsCreateResponse /\ last.status = 409)
       => StoredIgnoringCase(last.pre, last.req.dto.email)
  /\ (IsCreateResponse /\ last.status = 201 /\ table # last.pre)
       => table[last.body.userId].email \in LowerCaseEmails
  /\ (last.op = "login" /\ last.req.found # Null)
       => /\ SameIgnoringCase(last.req.found[1].email, last.req.email)
          /\ (~last.req.found[1].isDisabled
                /\ bcryptCompare(last.req.password,
                                 last.req.found[1].passwordHash))
               => last.status = 200

\* a create that differs from the stored e-mail only in letter case
EmailsCaseNormalizedWitness ==
  /\ IsCreateResponse
  /\ last.req.dto.email = "A@x"
  /\ \E i \in DOMAIN last.pre : last.pre[i].email = "a@x"
  /\ \A i \in DOMAIN last.pre : last.pre[i].email # "A@x"
  /\ last.status = 409

ImmutableAttrs == {"userId", "email", "createdAt"}

\* C19: no request changes the userId, the e-mail or the createdAt of an
\* existing record; an update whose body carries these fields leaves them at
\* their stored values.
IdentityFieldsImmutable ==
  /\ \A i \in DOMAIN table : table[i].userId = i
  /\ last.op # "none"
       => \A i \in DOMAIN last.pre \cap DOMAIN table :
            \A f \in ImmutableAttrs : table[i][f] = last.pre[i][f]
  /\ \A s \in DOMAIN reqs :
       reqs[s].op \in UpdateOps
         => DOMAIN reqs[s].dto \cap ImmutableAttrs = {}

IdentityFieldsImmutableWitness ==
  /\ last.op = "update"
  /\ last.status = 200
  /\ ImmutableAttrs \subseteq DOMAIN last.req.body
  /\ last.req.id \in DOMAIN last.pre
  /\ last.req.body.email # last.pre[last.req.id].email
  /\ table[last.req.id].lastName # last.pre[last.req.id].lastName

----------------------------------------------------------------------------
(* The browser: useAuthStore (zustand), localStorage and the request        *)
(* interceptor of apiClient.  A token string is modelled by what jwtDecode  *)
(* makes of it: its payload, or nothing when it cannot be decoded.          *)

ClientTokens ==
  { [ raw |-> "jwt", payload |-> Some([ sub |-> u, email |-> e,
                                        role |-> r, avatarUrl |-> "null",
                                        iat |-> 0, exp |-> x ]) ] :
      u \in {1, 2}, e \in {"a@x"}, r \in UserRole, x \in 0..MaxClock }
  \cup { [ raw |-> "not-a-jwt", payload |-> Null ] }

\* jwtDecode: the payload, Null when it throws
jwtDecode(token) == token.payload

\* decodeToken: the user it returns and whether it removes the authToken
\* item from localStorage (expired or undecodable token)
decodeToken(token) ==
  IF token = Null THEN [user |-> Null, removes |-> FALSE]
  ELSE LET decoded == jwtDecode(token[1]) IN
       IF decoded = Null THEN [user |-> Null, removes |-> TRUE]
       ELSE IF decoded[1].exp < clock THEN [user |-> Null, removes |-> TRUE]
       ELSE [ user |-> Some([ userId |-> decoded[1].sub,
                              email |-> decoded[1].email,
                              role |-> decoded[1].role,
                              avatarUrl |-> decoded[1].avatarUrl ]),
              removes |-> FALSE ]

\* variant: the role check of the render is left out
AuthComponentAnyRole(token, user, allowedRoles) ==
  IF token = Null \/ user = Null THEN "Authenticating..."
  ELSE "WrappedComponent"

\* withAuth, AuthComponent: what it returns for the store's token and user
AuthComponent(token, user, allowedRoles) ==
  IF token = Null \/ user = Null THEN "Authenticating..."
  ELSE IF allowedRoles # {} /\ user[1].role \notin allowedRoles
    THEN "Redirecting..."
  ELSE "WrappedComponent"

\* the pages wrapped by withAuth and the roles each passes to it
Protected == {"/dashboard", "/admin/users"}

allowedRoles(path) == IF path = "/admin/users" THEN {ADMIN} ELSE {}

\* a page that has just been navigated to: nothing rendered yet
Mount(path) ==
  [path |-> path, view |-> "none", effect |-> FALSE,
   seen |-> [token |-> Null, user |-> Null, decodedAt |-> 0]]

\* what a render reads from useAuthStore()
StoreSeen ==
  [token |-> client.token, user |-> client.user,
   decodedAt |-> client.decodedAt]

\* no request sent yet; else the Authorization header of the last request
\* and the token the store held when it was sent
Idle == [sent |-> FALSE, auth |-> Null, token |-> Null]

ServerVars == <<table, retired, tokens, reqs, last, nreq>>

\* the store as create() builds it when the module is evaluated at time
\* `now` with `item` in localStorage:
\* token: getInitialToken(), user: decodeToken(getInitialToken())
created(item, now, header, path) ==
  LET d == decodeToken(item)
  IN  [ token |-> item, user |-> d.user,
        authToken |-> IF d.removes THEN Null ELSE item,
        header |-> header, decodedAt |-> now, call |-> "load",
        page |-> Mount(path) ]

\* the items localStorage can hold at time 0: none, or a token that setToken
\* stored and decodeToken did not remove
StoredItems ==
  {Null} \cup {Some(t) : t \in {c \in ClientTokens : c.payload # Null}}

\* the login page is loaded at time 0
InitClient ==
  /\ table = (1 :> SeedUser(1, "a@x", "password1", ADMIN))
  /\ retired = {}
  /\ clock = 0
  /\ tokens = {}
  /\ reqs = << >>
  /\ last = NoResponse
  /\ nreq = 0
  /\ \E item \in StoredItems : client = created(item, clock, Idle, "/login")

\* time passes in the browser
ClientTick ==
  /\ clock < MaxClock
  /\ clock' = clock + 1
  /\ UNCHANGED ServerVars
  /\ UNCHANGED client

\* a full load of a page: the store is created again from localStorage
Load(path) ==
  /\ UNCHANGED ServerVars
  /\ UNCHANGED clock
  /\ client' = created(client.authToken, clock, client.header, path)

\* client-side navigation (Link, router.push): the store stays as it is
Visit(path) ==
  /\ UNCHANGED ServerVars
  /\ UNCHANGED clock
  /\ client' = [client EXCEPT !.page = Mount(path)]

\* useAuthStore.setToken(token)
SetToken(token) ==
  /\ UNCHANGED ServerVars
  /\ UNCHANGED clock
  /\ IF token # Null
       THEN LET d == decodeToken(token)
            IN  client' = [client EXCEPT
                             !.token = token, !.user = d.user,
                             !.authToken = IF d.removes THEN Null ELSE token,
                             !.decodedAt = clock, !.call = "setToken"]
       ELSE client' = [client EXCEPT
                         !.token = Null, !.user = Null, !.authToken = Null,
                         !.call = "setToken"]

\* variant: logout leaves the decoded user in the store
loggedOutKeepingUser(c) ==
  [c EXCEPT !.token = Null, !.authToken = Null, !.call = "logout"]

\* the browser after useAuthStore.logout()
loggedOut(c) ==
  [c EXCEPT !.token = Null, !.user = Null, !.authToken = Null,
            !.call = "logout"]

\* useAuthStore.logout()
Logout ==
  /\ UNCHANGED ServerVars
  /\ UNCHANGED clock
  /\ client' = loggedOut(client)

\* Layout.handleLogout: logout(), then router.push('/login')
HandleLogout ==
  /\ UNCHANGED ServerVars
  /\ UNCHANGED clock
  /\ client.page.path \in Protected
  /\ client.page.view = "WrappedComponent"
  /\ client' = [loggedOut(client) EXCEPT !.page = Mount("/login")]

\* apiClient request interceptor: Authorization: Bearer <authToken item>
Intercept ==
  /\ UNCHANGED ServerVars
  /\ UNCHANGED clock
  /\ client' = [client EXCEPT !.header = [sent |-> TRUE,
                                          auth |-> client.authToken,
                                          token |-> client.token]]

\* React renders AuthComponent: on mount, and again whenever the store's
\* token or user has changed; its effect is scheduled to run after it
Render ==
  /\ UNCHANGED ServerVars
  /\ UNCHANGED clock
  /\ client.page.path \in Protected
  /\ client.page.view = "none" \/ client.page.seen # StoreSeen
  /\ client' = [client EXCEPT
                  !.page.view = AuthComponent(client.token, client.user,
                                              allowedRoles(client.page.path)),
                  !.page.seen = StoreSeen,
                  !.page.effect = TRUE]

\* the useEffect of AuthComponent, with the token and user of its render
Effect ==
  /\ UNCHANGED ServerVars
  /\ UNCHANGED clock
  /\ client.page.path \in Protected
  /\ client.page.effect
  /\ LET token == client.page.seen.token
         user == client.page.seen.user
         roles == allowedRoles(client.page.path)
     IN  IF token = Null
           THEN client' = [client EXCEPT !.page = Mount("/login")]
         ELSE IF user # Null /\ roles # {} /\ user[1].role \notin roles
           THEN client' = [client EXCEPT !.page = Mount("/dashboard")]
         ELSE client' = [client EXCEPT !.page.effect = FALSE]

NextClient ==
  \/ ClientTick
  \/ \E path \in Protected : Load(path)
  \/ \E path \in Protected \cup {"/login"} : Visit(path)
  \/ \E token \in {Null} \cup {Some(t) : t \in ClientTokens} : SetToken(token)
  \/ Logout
  \/ HandleLogout
  \/ Intercept
  \/ Render
  \/ Effect

SpecClient == InitClient /\ [][NextClient]_vars

\* C20: whenever the auth store holds a token, it is the authToken item of
\* localStorage, and the request the client sends carries exactly that token
\* in its Authorization header, after any sequence of setToken and logout
\* calls.
StoreTokenIsSentToken ==
  /\ client.token # Null => client.authToken = client.token
  /\ (client.header.sent /\ client.header.token # Null)
       => client.header.auth = client.header.token

----------------------------------------------------------------------------
\* C21: no request without a token creates a record with role ADMIN: every
\* record written by POST /auth/register has role USER, whatever the body
\* contains; stated for the case the claim singles out, a body with a role
\* field and an e-mail that was free.
RegisterCreatesRoleUser ==
  (last.op = "register" /\ "dto" \in DOMAIN last.req /\ ~last.req.taken
     /\ "role" \in DOMAIN last.req.dto /\ table # last.pre)
    => \A i \in DOMAIN table \ DOMAIN last.pre : table[i].role = USER

----------------------------------------------------------------------------
\* the attributes PATCH /users/profile may write
ProfileAttrs == {"firstName", "lastName", "avatarUrl", "updatedAt"}

\* the response answers a PATCH /users/profile
IsProfileResponse ==
  /\ last.op = "updateOwnProfile"
  /\ "dto" \in DOMAIN last.req

\* C22: PATCH /users/profile changes only firstName, lastName, avatarUrl and
\* updatedAt of the caller's own record: whatever the body contains (role,
\* isDisabled or password included), every other attribute of the caller's
\* record and every other record are unchanged, and no record appears or
\* disappears.
ProfileUpdateFrame ==
  IsProfileResponse
    => /\ DOMAIN table = DOMAIN last.pre
       /\ \A i \in DOMAIN table \ {last.req.user.userId} :
            table[i] = last.pre[i]
       /\ \A i \in DOMAIN table \cap {last.req.user.userId} :
            Kept(last.pre[i], table[i], AllAttrs \ ProfileAttrs)

ProfileUpdateFrameWitness ==
  /\ IsProfileResponse
  /\ last.status = 200
  /\ {"role", "isDisabled", "password", "firstName"} \subseteq DOMAIN last.req.body
  /\ last.req.body.role # last.pre[last.req.id].role
  /\ last.req.body.isDisabled # last.pre[last.req.id].isDisabled
  /\ ~bcryptCompare(last.req.body.password, last.pre[last.req.id].passwordHash)
  /\ table[last.req.id].firstName # last.pre[last.req.id].firstName

----------------------------------------------------------------------------
(* Two PATCH /users/:id in flight at once: both requests of an              *)
(* administrator have passed JwtAuthGuard; each reads the clock and builds  *)
(* its expression, and the two UpdateCommands reach the store in either     *)
(* order.                                                                   *)

\* bodies that share fields, with different values, and bodies that do not
ConcurrentDtos ==
  { << >>,
    [firstName |-> "Bob", lastName |-> "Lee"],
    [firstName |-> "Rob"],
    [lastName |-> "Roe", isDisabled |-> TRUE],
    [isDisabled |-> FALSE, role |-> USER],
    [password |-> "password2"],
    [password |-> "password1", avatarUrl |-> "http://img/2"],
    [role |-> ADMIN, avatarUrl |-> "http://img/3"] }

InitConcurrent ==
  /\ clock = 0
  /\ \E u2 \in StoredVariants(2, "b@x", "password2") :
       /\ u2.updatedAt <= clock
       /\ table = (1 :> SeedUser(1, "a@x", "password1", ADMIN)) @@ (2 :> u2)
  /\ retired = {}
  /\ LET tok == [ email |-> "a@x", sub |-> 1, role |-> ADMIN,
                  avatarUrl |-> "null", iat |-> 0, exp |-> TokenTTL,
                  sig |-> TRUE ]
         guarded == [ op |-> "users", tok |-> Some(tok),
                      live |-> "enabled", liveRole |-> ADMIN,
                      user |-> validate(tok), pc |-> "guarded" ]
     IN  /\ tokens = {tok}
         /\ reqs = (1 :> guarded) @@ (2 :> guarded)
  /\ last = NoResponse
  /\ nreq = 0
  /\ client = NoClient

\* the response leaves the server; the request still in flight remembers it
\* (`earlier`) and whether it had itself started its update by then
DeliverNoting ==
  /\ ~Ready
  /\ UNCHANGED client
  /\ last' = NoResponse
  /\ reqs' = [s \in DOMAIN reqs |->
                [earlier |-> last, overlapped |-> reqs[s].pc = "write"]
                @@ reqs[s]]
  /\ UNCHANGED <<table, retired, clock, tokens, nreq>>

UpdateConcurrent(s) == UsersUpdate(s, ConcurrentDtos)

NextConcurrent ==
  \/ Tick
  \/ DeliverNoting
  \/ \E s \in Slots : UpdateConcurrent(s)
  \/ \E s \in Slots : UpdateWrite(s)

SpecConcurrent == InitConcurrent /\ [][NextConcurrent]_vars

\* the attributes the UpdateCommand of request r assigns, and their values
Written(r) == {Attr(k) : k \in DOMAIN r.dto} \cup {"updatedAt"}

WrittenValue(r, f) ==
  IF f = "updatedAt" THEN r.now
  ELSE IF f = "passwordHash" THEN bcryptHash(r.dto.password, r.n)
  ELSE r.dto[f]

\* the response answers the later of two successful writes to one record
IsLaterWrite ==
  /\ last.op = "update"
  /\ last.status = 200
  /\ "earlier" \in DOMAIN last.req
  /\ DOMAIN last.req.dto # {}
  /\ last.req.earlier.op = "update"
  /\ last.req.earlier.status = 200
  /\ DOMAIN last.req.earlier.req.dto # {}
  /\ last.req.earlier.req.id = last.req.id

\* C23: after two updates of the same existing record, concurrent or not,
\* each field has the value set by the last write that carried it: a field
\* carried by the later write has that write's value, a field carried only by
\* the earlier write has the earlier write's value, and a field carried by
\* neither is as it was before both.
ConcurrentUpdatesLastWriteWins ==
  IsLaterWrite
    => LET later == last.req
           earlier == last.req.earlier.req
           before == last.req.earlier.pre[last.req.id]
           after == table[last.req.id]
       IN  \A f \in AllAttrs :
             IF f \in Written(later)
               THEN f \in DOMAIN after /\ after[f] = WrittenValue(later, f)
             ELSE IF f \in Written(earlier)
               THEN f \in DOMAIN after /\ after[f] = WrittenValue(earlier, f)
             ELSE Kept(before, after, {f})

\* both requests had started before either wrote; the later write started
\* first, shares firstName with the earlier one and lacks its lastName
ConcurrentUpdatesLastWriteWinsWitness ==
  /\ IsLaterWrite
  /\ last.req.overlapped
  /\ last.req.now < last.req.earlier.req.now
  /\ DOMAIN last.req.dto = {"firstName"}
  /\ DOMAIN last.req.earlier.req.dto = {"firstName", "lastName"}
  /\ table[last.req.id].firstName = "Rob"
  /\ table[last.req.id].lastName = "Lee"
  /\ table[last.req.id].updatedAt < last.pre[last.req.id].updatedAt

----------------------------------------------------------------------------
(* Tokens over the life of a record: user 2 logged in at time 0 and was     *)
(* disabled afterwards; administrator 1 holds a token too.  The record is   *)
(* re-enabled, changed, disabled or deleted while time passes.              *)

TokenDtos ==
  { [isDisabled |-> FALSE],
    [isDisabled |-> TRUE],
    [password |-> "password1", role |-> USER, firstName |-> "Bob"] }

InitToken ==
  /\ clock = 0
  /\ \E u2 \in StoredVariants(2, "b@x", "password2") :
       /\ u2.updatedAt <= clock
       /\ u2.isDisabled
       /\ table = (1 :> SeedUser(1, "a@x", "password1", ADMIN)) @@ (2 :> u2)
  /\ retired = {}
  /\ tokens = { [ email |-> "a@x", sub |-> 1, role |-> ADMIN,
                  avatarUrl |-> "null", iat |-> 0, exp |-> TokenTTL,
                  sig |-> TRUE ],
                [ email |-> "b@x", sub |-> 2, role |-> ADMIN,
                  avatarUrl |-> "null", iat |-> 0, exp |-> TokenTTL,
                  sig |-> TRUE ] }
  /\ reqs = << >>
  /\ last = NoResponse
  /\ nreq = 0
  /\ client = NoClient

UpdateToken(s) == UsersUpdate(s, TokenDtos)

NextToken ==
  \/ Tick
  \/ Deliver
  \/ \E tok \in BearerTokens : Authenticate(tok)
  \/ \E s \in Slots : GetProfile(s)
  \/ \E s \in Slots : UpdateToken(s)
  \/ \E s \in Slots : UpdateWrite(s)
  \/ \E s \in Slots : Remove(s)

SpecToken == InitToken /\ [][NextToken]_vars

\* the response is JwtAuthGuard's answer to a request whose token passport
\* has verified (signature and expiry)
IsValidateRejection ==
  /\ last.op = "users"
  /\ "live" \in DOMAIN last.req

\* C24: a correctly signed, unexpired token is accepted exactly when its
\* subject's record exists and is not disabled at that moment (and the store
\* answers the lookup): a request goes past JwtAuthGuard only with an enabled
\* record, and is rejected by JwtStrategy.validate, with 401, only when the
\* record is absent or disabled.  Nothing else about the record (password,
\* role, profile, earlier rejections) enters the decision.
TokenAcceptedIffEnabled ==
  /\ \A s \in DOMAIN reqs :
       /\ reqs[s].tok[1].sig
       /\ reqs[s].live = "enabled"
  /\ IsValidateRejection
       => /\ last.status = 401
          /\ ~last.req.threw => last.req.live # "enabled"

\* the token of user 2, whose record was disabled at the start, is accepted:
\* the record has been re-enabled, and its password, role and first name
\* have been changed since the token was issued
TokenAcceptedIffEnabledWitness ==
  \E s \in DOMAIN reqs :
    /\ reqs[s].pc = "guarded"
    /\ reqs[s].tok[1].sub = 2
    /\ 2 \in DOMAIN table
    /\ reqs[s].user.role # table[2].role
    /\ table[2].passwordHash.salt # 0
    /\ table[2].firstName = "Bob"
    /\ ~table[2].isDisabled

----------------------------------------------------------------------------
\* C25: the table, which starts with an enabled record of role ADMIN, holds
\* at least one enabled record of role ADMIN after any sequence or
\* interleaving of requests.
SomeEnabledAdminRemains ==
  \E i \in DOMAIN table : table[i].role = ADMIN /\ ~table[i].isDisabled

----------------------------------------------------------------------------
\* C26: an administrator's PATCH /users/:id on their own id is refused with
\* 403 only if the body sets role to a value other than ADMIN or isDisabled
\* to true; stated for the bodies the claim singles out: a body with some
\* field but neither role nor isDisabled is not refused.
SelfUpdateWithoutRoleApplied ==
  (last.op = "update" /\ "dto" \in DOMAIN last.req
     /\ last.req.id = last.req.user.userId
     /\ DOMAIN last.req.dto # {}
     /\ DOMAIN last.req.dto \cap {"role", "isDisabled"} = {})
    => last.status # 403

----------------------------------------------------------------------------
\* C27: a page wrapped by withAuth renders its wrapped component only from a
\* store that holds a token and the user decoded from it, not expired when it
\* was decoded, and, when the page gives allowedRoles, with the decoded role
\* among them; the admin users page is never rendered for the role USER.
WithAuthRendersOnlyAuthorized ==
  client.page.view = "WrappedComponent"
    => LET seen == client.page.seen
           roles == allowedRoles(client.page.path)
       IN  /\ client.page.path \in Protected
           /\ seen.token # Null
           /\ seen.user # Null
           /\ jwtDecode(seen.token[1]) # Null
           /\ jwtDecode(seen.token[1])[1].exp >= seen.decodedAt
           /\ seen.user[1].role = jwtDecode(seen.token[1])[1].role
           /\ roles # {} => seen.user[1].role \in roles
           /\ client.page.path = "/admin/users" => seen.user[1].role # USER

\* the admin users page rendered for an administrator who has just logged in
WithAuthRendersOnlyAuthorizedWitness ==
  /\ client.page.view = "WrappedComponent"
  /\ client.page.path = "/admin/users"
  /\ client.page.seen.user[1].role = ADMIN
  /\ client.page.seen.token = client.token
  /\ client.call = "setToken"

----------------------------------------------------------------------------
(* One visit of a protected page: the page is loaded, at any time, with     *)
(* whatever an earlier session left in localStorage; React renders the      *)
(* component and runs its effect.  Nothing else happens.                    *)

InitVisit ==
  /\ table = (1 :> SeedUser(1, "a@x", "password1", ADMIN))
  /\ retired = {}
  /\ clock \in 0..MaxClock
  /\ tokens = {}
  /\ reqs = << >>
  /\ last = NoResponse
  /\ nreq = 0
  /\ \E item \in StoredItems : \E path \in Protected :
       client = created(item, clock, Idle, path)

\* the wrapped component, once rendered, sends its requests
Fetch ==
  /\ client.page.view = "WrappedComponent"
  /\ Intercept

NextVisit ==
  \/ ClientTick
  \/ Fetch
  \/ Render
  \/ Effect

\* React renders a mounted component and runs a scheduled effect
SpecVisit ==
  /\ InitVisit
  /\ [][NextVisit]_vars
  /\ WF_vars(Render)
  /\ WF_vars(Effect)

\* C28: a visitor of a withAuth page whose stored token is missing, expired
\* or undecodable (the store has no user) is eventually redirected to /login.
NoUserLeadsToLogin ==
  (client.page.path \in Protected /\ client.user = Null)
    ~> (client.page.path = "/login")

----------------------------------------------------------------------------
\* C29: in every state of the auth store, user is set only if token is, and
\* a user that is set has the userId, email and role of the sub, email and
\* role claims of the stored token; after logout, token, user and the
\* authToken item of localStorage are all absent.
StoreUserMatchesToken ==
  /\ client.user # Null
       => /\ client.token # Null
          /\ jwtDecode(client.token[1]) # Null
          /\ LET claims == jwtDecode(client.token[1])[1]
             IN  /\ client.user[1].userId = claims.sub
                 /\ client.user[1].email = claims.email
                 /\ client.user[1].role = claims.role
  /\ client.call = "logout"
       => /\ client.token = Null
          /\ client.user = Null
          /\ client.authToken = Null

\* a logout that followed requests sent with a token of user 2
StoreUserMatchesTokenWitness ==
  /\ client.call = "logout"
  /\ client.header.sent
  /\ client.header.auth # Null
  /\ client.header.auth[1].payload[1].sub = 2
  /\ client.page.path = "/login"

====
